---- MODULE Spec2Model ----
(***************************************************************************)
(* Model of pyne/simplesim/nestedgeom.py: the tally-unit graph (IUnit and  *)
(* its subclasses surf, cell, univ, union, vec), the joining operation     *)
(* IUnit.of, the merge operations IUnit.union / IUnit.vector and the two   *)
(* recursive renderers comment() and mcnp().                               *)
(*                                                                         *)
(* Objects are nodes of an arena; a Python reference is a node index and   *)
(* Python's None is the index None (0).  A rendered string is built as a   *)
(* sequence of the pieces the format calls put together; Str joins them    *)
(* into the string the call returns.  A raised exception is the err field  *)
(* of a result and propagates through every caller, as in Python.          *)
(***************************************************************************)
EXTENDS Integers, Sequences, FiniteSets, TLC

\* Bound: number of calls (of, union, vector, comment, mcnp) in one behaviour.
MaxOps == 3
\* Bound: number of union/vec objects that can be constructed.
MaxComb == 1

None == 0

\* The fixed units the behaviours work on: cell('A'), univ('B'), cell('C'),
\* surf('D').
LeafKind == <<"cell", "univ", "cell", "surf">>
LeafName == <<"A", "B", "C", "D">>
NumLeaves == Len(LeafKind)
Leaves == 1..NumLeaves
Nodes == 1..(NumLeaves + MaxComb)

VARIABLES
    kind,       \* class of each object; "free" for an object not yet constructed
    up,         \* IUnit.up
    down,       \* IUnit.down
    brothers,   \* union.brothers
    sisters,    \* vec.sisters
    ret,        \* the last call: its arguments and its result or exception
    nops        \* number of calls so far

vars == <<kind, up, down, brothers, sisters, ret, nops>>

Allocated == {n \in Nodes : kind[n] # "free"}

(***************************************************************************)
(* Strings                                                                 *)
(***************************************************************************)
Digit == <<"0", "1", "2", "3", "4", "5", "6", "7", "8", "9">>

\* "{0}".format(n) for a non-negative integer n.
RECURSIVE IntStr(_)
IntStr(n) == IF n < 10 THEN Digit[n + 1]
             ELSE IntStr(n \div 10) \o Digit[(n % 10) + 1]

\* "{0!r}".format(name) for a str without quote characters.
Repr(nm) == "'" \o nm \o "'"

\* The string made of the pieces in order.
RECURSIVE Str(_)
Str(ps) == IF ps = <<>> THEN "" ELSE Head(ps) \o Str(Tail(ps))

(***************************************************************************)
(* Results of calls: a value or a raised exception.                        *)
(***************************************************************************)
Ok(ps) == [err |-> "none", out |-> ps]
Raise(e) == [err |-> e, out |-> <<>>]

(***************************************************************************)
(* The system definition (sim.sys) the numbers are looked up in.  It maps  *)
(* the names it knows to numbers, separately for surfaces, cells and       *)
(* universes; a lookup of a name it does not know raises.                  *)
(***************************************************************************)
NamesOf(S, k) == {LeafName[i] : i \in {j \in S : LeafKind[j] = k}}
NumOf(nm) == CHOOSE i \in Leaves : LeafName[i] = nm

\* The system definition that knows exactly the units in S, each numbered by
\* its index: cell 'A' is 1, universe 'B' is 2, cell 'C' is 3, surface 'D' is 4.
Registry(S) ==
    [surfaces  |-> [nm \in NamesOf(S, "surf") |-> NumOf(nm)],
     cells     |-> [nm \in NamesOf(S, "cell") |-> NumOf(nm)],
     universes |-> [nm \in NamesOf(S, "univ") |-> NumOf(nm)]]

\* The system definitions a render call is given: the one that knows every
\* unit, and those that lack one of them.
Registries == {Registry(S) : S \in {Leaves} \cup {Leaves \ {m} : m \in Leaves}}

surface_num(sim, nm) ==
    IF nm \in DOMAIN sim.surfaces THEN Ok(<<IntStr(sim.surfaces[nm])>>)
    ELSE Raise("NameNotFound")

cell_num(sim, nm) ==
    IF nm \in DOMAIN sim.cells THEN Ok(<<IntStr(sim.cells[nm])>>)
    ELSE Raise("NameNotFound")

universe_num(sim, nm) ==
    IF nm \in DOMAIN sim.universes THEN Ok(<<IntStr(sim.universes[nm])>>)
    ELSE Raise("NameNotFound")

(***************************************************************************)
(* Rendering.  depth counts the frames still available: the recursion of   *)
(* comment()/mcnp() through up and through brothers/sisters has no base    *)
(* case on a cyclic graph and ends in Python's recursion error.  A call    *)
(* chain longer than the number of objects revisits an object, so it       *)
(* never ends.                                                             *)
(***************************************************************************)
RecursionLimit == Cardinality(Nodes) + 1

\* " (" if self.up and not self.down else ""
comment_open(self) == IF up[self] # None /\ down[self] = None THEN <<" (">> ELSE <<>>
\* Faulty variant: ")" if self.down else "" (closes at every node with a down link).
comment_close_anydown(self) == IF down[self] # None THEN <<")">> ELSE <<>>
\* ")" if self.down and not self.up else ""
comment_close(self) == IF down[self] # None /\ up[self] = None THEN <<")">> ELSE <<>>
\* Faulty variant: " (" if self.up else "" (opens at every node with an up link).
mcnp_open_anyup(self) == IF up[self] # None THEN <<" (">> ELSE <<>>
\* " (" if self.up and not self.down else ""
mcnp_open(self) == IF up[self] # None /\ down[self] = None THEN <<" (">> ELSE <<>>
\* ")" if self.down and not self.up else ""
mcnp_close(self) == IF down[self] # None /\ up[self] = None THEN <<")">> ELSE <<>>

RECURSIVE comment(_, _), comment_each(_, _, _)
RECURSIVE mcnp(_, _, _), mcnp_each(_, _, _, _)

\* IUnit.comment(self, inner): inner is the already evaluated argument.
IUnit_comment(self, inner, depth) ==
    IF inner.err # "none" THEN inner
    ELSE LET outer == IF up[self] # None THEN comment(up[self], depth - 1)
                      ELSE Ok(<<>>)
         IN  IF outer.err # "none" THEN outer
             ELSE Ok(comment_open(self)
                     \o inner.out
                     \o (IF up[self] # None THEN <<" in">> \o outer.out ELSE <<>>)
                     \o comment_close(self))

\* The loop of union.comment / vec.comment over the members from index i on:
\* each member's comment, a "," after all but the last.
comment_each(ms, i, depth) ==
    IF i > Len(ms) THEN Ok(<<>>)
    ELSE LET one == comment(ms[i], depth - 1)
         IN  IF one.err # "none" THEN one
             ELSE LET rest == comment_each(ms, i + 1, depth)
                  IN  IF rest.err # "none" THEN rest
                      ELSE Ok(one.out
                              \o (IF i < Len(ms) THEN <<",">> ELSE <<>>)
                              \o rest.out)

surf_comment_inner(self) == Ok(<<" surf " \o Repr(LeafName[self])>>)
cell_comment_inner(self) == Ok(<<" cell " \o Repr(LeafName[self])>>)
univ_comment_inner(self) == Ok(<<" univ " \o Repr(LeafName[self])>>)

union_comment_inner(self, depth) ==
    LET s == comment_each(brothers[self], 1, depth)
    IN  IF s.err # "none" THEN s
        ELSE Ok(<<" union of (">> \o s.out \o <<")">>)

vec_comment_inner(self, depth) ==
    LET s == comment_each(sisters[self], 1, depth)
    IN  IF s.err # "none" THEN s
        ELSE Ok(<<" over (">> \o s.out \o <<")">>)

\* self.comment(), dispatched on the class of self.
comment(self, depth) ==
    IF depth = 0 THEN Raise("RecursionError")
    ELSE IUnit_comment(self,
            CASE kind[self] = "surf"  -> surf_comment_inner(self)
              [] kind[self] = "cell"  -> cell_comment_inner(self)
              [] kind[self] = "univ"  -> univ_comment_inner(self)
              [] kind[self] = "union" -> union_comment_inner(self, depth)
              [] kind[self] = "vec"   -> vec_comment_inner(self, depth),
            depth)

\* IUnit.mcnp(self, float_format, sim, inner).
IUnit_mcnp(self, sim, inner, depth) ==
    IF inner.err # "none" THEN inner
    ELSE LET outer == IF up[self] # None THEN mcnp(up[self], sim, depth - 1)
                      ELSE Ok(<<>>)
         IN  IF outer.err # "none" THEN outer
             ELSE Ok(mcnp_open(self)
                     \o inner.out
                     \o (IF up[self] # None THEN <<" <">> \o outer.out ELSE <<>>)
                     \o mcnp_close(self))

\* The loop of union.mcnp / vec.mcnp over the members from index i on.
mcnp_each(ms, i, sim, depth) ==
    IF i > Len(ms) THEN Ok(<<>>)
    ELSE LET one == mcnp(ms[i], sim, depth - 1)
         IN  IF one.err # "none" THEN one
             ELSE LET rest == mcnp_each(ms, i + 1, sim, depth)
                  IN  IF rest.err # "none" THEN rest
                      ELSE Ok(one.out \o rest.out)

\* " {0}".format(sim.sys.surface_num(self.name))
surf_mcnp_inner(self, sim) ==
    LET num == surface_num(sim, LeafName[self])
    IN  IF num.err # "none" THEN num ELSE Ok(<<" " \o num.out[1]>>)

\* " {0}{1}".format(sim.sys.cell_num(self.name), inner if inner else "")
cell_mcnp_inner(self, sim) ==
    LET num == cell_num(sim, LeafName[self])
    IN  IF num.err # "none" THEN num ELSE Ok(<<" " \o num.out[1] \o "">>)

\* " U={0}".format(sim.sys.universe_num(self.name))
univ_mcnp_inner(self, sim) ==
    LET num == universe_num(sim, LeafName[self])
    IN  IF num.err # "none" THEN num ELSE Ok(<<" U=" \o num.out[1]>>)

union_mcnp_inner(self, sim, depth) ==
    LET s == mcnp_each(brothers[self], 1, sim, depth)
    IN  IF s.err # "none" THEN s
        ELSE Ok(<<" (">> \o s.out \o <<")">>)

vec_mcnp_inner(self, sim, depth) == mcnp_each(sisters[self], 1, sim, depth)

\* self.mcnp(float_format, sim), dispatched on the class of self.
mcnp(self, sim, depth) ==
    IF depth = 0 THEN Raise("RecursionError")
    ELSE IUnit_mcnp(self, sim,
            CASE kind[self] = "surf"  -> surf_mcnp_inner(self, sim)
              [] kind[self] = "cell"  -> cell_mcnp_inner(self, sim)
              [] kind[self] = "univ"  -> univ_mcnp_inner(self, sim)
              [] kind[self] = "union" -> union_mcnp_inner(self, sim, depth)
              [] kind[self] = "vec"   -> vec_mcnp_inner(self, sim, depth),
            depth)

(***************************************************************************)
(* State after construction of the leaves: IUnit.__init__ leaves up and    *)
(* down None.                                                              *)
(***************************************************************************)
NoCall == [op |-> "none", self |-> None, arg |-> None, val |-> None,
           err |-> "none", out |-> "", sim |-> Registry({})]

Init ==
    /\ kind = [n \in Nodes |-> IF n \in Leaves THEN LeafKind[n] ELSE "free"]
    /\ up = [n \in Nodes |-> None]
    /\ down = [n \in Nodes |-> None]
    /\ brothers = [n \in Nodes |-> <<>>]
    /\ sisters = [n \in Nodes |-> <<>>]
    /\ ret = NoCall
    /\ nops = 0

(***************************************************************************)
(* IUnit.of                                                                *)
(***************************************************************************)
\* self.up = next_level_up
of_up(self, next_level_up) == [up EXCEPT ![self] = next_level_up]
\* Faulty variant: also clears every other down link that pointed at self.
of_down_moving(self, next_level_up) ==
    [n \in Nodes |-> IF n = next_level_up THEN self
                     ELSE IF down[n] = self THEN None ELSE down[n]]
\* self.up.down = self
of_down(self, next_level_up) == [down EXCEPT ![next_level_up] = self]
\* if self.down: return self.down / else: return self, read after the stores
of_result(self, next_level_up) ==
    LET d == of_down(self, next_level_up)
    IN  IF d[self] # None THEN d[self] ELSE self

Of(self, next_level_up) ==
    /\ nops < MaxOps
    /\ self \in Allocated
    /\ next_level_up \in Allocated
    /\ up' = of_up(self, next_level_up)
    /\ down' = of_down(self, next_level_up)
    /\ ret' = [NoCall EXCEPT !.op = "of", !.self = self, !.arg = next_level_up,
                             !.val = of_result(self, next_level_up)]
    /\ nops' = nops + 1
    /\ UNCHANGED <<kind, brothers, sisters>>

(***************************************************************************)
(* IUnit.union, IUnit.vector.  __init__ stores the argument tuple, and     *)
(* tuple += list raises TypeError before anything is stored.               *)
(***************************************************************************)
NewNode == CHOOSE n \in Nodes : kind[n] = "free" /\ \A m \in Nodes : kind[m] = "free" => n <= m

\* self.brothers += [right] on the tuple union.__init__ stored
union_append(self, right) == Raise("TypeError")
\* self.sisters += [right] on the tuple vec.__init__ stored
vec_append(self, right) == Raise("TypeError")

Union(self, right) ==
    /\ nops < MaxOps
    /\ self \in Allocated
    /\ right \in Allocated
    /\ nops' = nops + 1
    /\ IF kind[self] = "union"
       THEN LET r == union_append(self, right)
            IN  /\ brothers' = IF r.err = "none"
                               THEN [brothers EXCEPT ![self] = r.out]
                               ELSE brothers
                /\ ret' = [NoCall EXCEPT !.op = "union", !.self = self, !.arg = right,
                                         !.val = IF r.err = "none" THEN self ELSE None,
                                         !.err = r.err]
                /\ UNCHANGED <<kind, up, down, sisters>>
       ELSE /\ \E n \in Nodes : kind[n] = "free"
            /\ kind' = [kind EXCEPT ![NewNode] = "union"]
            /\ brothers' = [brothers EXCEPT ![NewNode] = <<self, right>>]
            /\ ret' = [NoCall EXCEPT !.op = "union", !.self = self, !.arg = right,
                                     !.val = NewNode]
            /\ UNCHANGED <<up, down, sisters>>

Vector(self, right) ==
    /\ nops < MaxOps
    /\ self \in Allocated
    /\ right \in Allocated
    /\ nops' = nops + 1
    /\ IF kind[self] = "vec"
       THEN LET r == vec_append(self, right)
            IN  /\ sisters' = IF r.err = "none"
                              THEN [sisters EXCEPT ![self] = r.out]
                              ELSE sisters
                /\ ret' = [NoCall EXCEPT !.op = "vector", !.self = self, !.arg = right,
                                         !.val = IF r.err = "none" THEN self ELSE None,
                                         !.err = r.err]
                /\ UNCHANGED <<kind, up, down, brothers>>
       ELSE /\ \E n \in Nodes : kind[n] = "free"
            /\ kind' = [kind EXCEPT ![NewNode] = "vec"]
            /\ sisters' = [sisters EXCEPT ![NewNode] = <<self, right>>]
            /\ ret' = [NoCall EXCEPT !.op = "vector", !.self = self, !.arg = right,
                                     !.val = NewNode]
            /\ UNCHANGED <<up, down, brothers>>

(***************************************************************************)
(* The render calls: read-only.                                            *)
(***************************************************************************)
Comment(self) ==
    /\ nops < MaxOps
    /\ self \in Allocated
    /\ nops' = nops + 1
    /\ LET r == comment(self, RecursionLimit)
       IN  ret' = [NoCall EXCEPT !.op = "comment", !.self = self,
                                 !.err = r.err, !.out = Str(r.out)]
    /\ UNCHANGED <<kind, up, down, brothers, sisters>>

Mcnp(self, sim) ==
    /\ nops < MaxOps
    /\ self \in Allocated
    /\ nops' = nops + 1
    /\ LET r == mcnp(self, sim, RecursionLimit)
       IN  ret' = [NoCall EXCEPT !.op = "mcnp", !.self = self, !.sim = sim,
                                 !.err = r.err, !.out = Str(r.out)]
    /\ UNCHANGED <<kind, up, down, brothers, sisters>>

Next ==
    \/ \E a \in Nodes, b \in Nodes : Of(a, b)
    \/ \E a \in Nodes, b \in Nodes : Union(a, b)
    \/ \E a \in Nodes, b \in Nodes : Vector(a, b)
    \/ \E a \in Nodes : Comment(a)
    \/ \E a \in Nodes, sim \in Registries : Mcnp(a, sim)

Spec == Init /\ [][Next]_vars

(***************************************************************************)
(* Properties                                                              *)
(***************************************************************************)
Range(f) == {f[i] : i \in DOMAIN f}

\* The step is the call self.of(next_level_up).
OfStep(self, next_level_up) ==
    /\ nops' = nops + 1
    /\ ret'.op = "of" /\ ret'.self = self /\ ret'.arg = next_level_up

\* The step is the call self.union(right).
UnionStep(self, right) ==
    /\ nops' = nops + 1
    /\ ret'.op = "union" /\ ret'.self = self /\ ret'.arg = right

\* The step is the call self.vector(right).
VectorStep(self, right) ==
    /\ nops' = nops + 1
    /\ ret'.op = "vector" /\ ret'.self = self /\ ret'.arg = right

\* Nodes reached from the nodes of S in at most k steps of the relation next.
RECURSIVE Closure(_, _, _)
Closure(S, next(_), k) ==
    IF k = 0 THEN S
    ELSE Closure(S \cup UNION {next(n) : n \in S}, next, k - 1)

UpOf(n) == {up[n]} \ {None}
DownOf(n) == {down[n]} \ {None}
\* The objects a render call on n calls next.
CalledBy(n) == UpOf(n) \cup Range(brothers[n]) \cup Range(sisters[n])

\* Nodes reached from n by one or more steps of next.
Beyond(n, next(_)) == Closure(next(n), next, Cardinality(Nodes))

\* C1: in every reachable state the up and down links pair up: B.up = A
\* exactly when A.down = B.
C1_LinksPaired ==
    \A a \in Nodes, b \in Nodes : (up[b] = a) <=> (down[a] = b)

\* C2: in every reachable state following up from a node never comes back to
\* it, and neither does following down.
C2_Acyclic ==
    \A n \in Nodes : n \notin Beyond(n, UpOf) /\ n \notin Beyond(n, DownOf)

\* C3: a call inner.of(outer) on an inner that already has an up link raises
\* AlreadyNested and changes no link.
C3_AlreadyNested ==
    [][\A a \in Nodes, b \in Nodes :
          (OfStep(a, b) /\ up[a] # None)
          => (ret'.err = "AlreadyNested" /\ up' = up /\ down' = down)]_vars

\* The node reached from n by following down until there is no down link.
RECURSIVE Innermost(_)
Innermost(n) == IF down[n] = None THEN n ELSE Innermost(down[n])

\* Following down from n comes to a node without a down link.
DownWalkEnds(n) ==
    \A m \in {n} \cup Beyond(n, DownOf) : m \notin Beyond(m, DownOf)

\* C4: inner.of(outer) returns the innermost node of the resulting chain: the
\* node reached from inner by following down to its end (stated for the
\* chains on which that walk ends).
C4_ReturnsInnermost ==
    (ret.op = "of" /\ DownWalkEnds(ret.self))
    => ret.val = Innermost(ret.self)

\* C5: union on a node that already is a union, given a unit that is not yet
\* among its brothers, succeeds, returns that same node and appends the unit
\* to its brothers, constructing nothing; likewise vector on a vec.
C5_LeftFlattening ==
    [][\A u \in Nodes, c \in Nodes :
          /\ (UnionStep(u, c) /\ kind[u] = "union" /\ c \notin Range(brothers[u]) /\ c # u)
             => /\ ret'.err = "none" /\ ret'.val = u
                /\ brothers'[u] = Append(brothers[u], c)
                /\ kind' = kind
          /\ (VectorStep(u, c) /\ kind[u] = "vec" /\ c \notin Range(sisters[u]) /\ c # u)
             => /\ ret'.err = "none" /\ ret'.val = u
                /\ sisters'[u] = Append(sisters[u], c)
                /\ kind' = kind]_vars

\* The text comment() gives a leaf by itself.
LeafText(n) ==
    CASE LeafKind[n] = "surf" -> " surf " \o Repr(LeafName[n])
      [] LeafKind[n] = "cell" -> " cell " \o Repr(LeafName[n])
      [] LeafKind[n] = "univ" -> " univ " \o Repr(LeafName[n])

Fresh(n) == up[n] = None /\ down[n] = None

\* The comment of a three-level chain a in b in c: parentheses at its two ends only.
ChainComment(a, b, c) ==
    Ok(<<" (", LeafText(a), " in", LeafText(b), " in", LeafText(c), ")">>)

\* The last call was x.of(y) on fresh leaves x and y, and returned x.
JustJoined(x, y) ==
    /\ ret.op = "of" /\ ret.self = x /\ ret.arg = y /\ ret.val = x
    /\ up[x] = y /\ down[x] = None /\ up[y] = None /\ down[y] = x

\* C6 as stated: for fresh leaves A, B, C the call of(of(A, B), C) builds the
\* chain A.up = B, B.up = C, and comment() on A reads A in B in C with
\* parentheses at the two ends only.
C6_LeftNestedJoin ==
    [][\A a \in Leaves, b \in Leaves, c \in Leaves :
          (/\ Cardinality({a, b, c}) = 3
           /\ JustJoined(a, b) /\ Fresh(c)
           /\ OfStep(ret.val, c))
          => (/\ up'[a] = b /\ up'[b] = c
              /\ comment(a, RecursionLimit)' = ChainComment(a, b, c))]_vars

\* C6 amended: for distinct fresh leaves A, B, C the call of(A, of(B, C))
\* returns A and builds the chain A.up = B, B.up = C, and comment() on A
\* reads A in B in C with parentheses at the two ends only.
C6_RightNestedJoin ==
    [][\A a \in Leaves, b \in Leaves, c \in Leaves :
          (/\ Cardinality({a, b, c}) = 3
           /\ JustJoined(b, c) /\ Fresh(a)
           /\ OfStep(a, ret.val))
          => (/\ ret'.err = "none" /\ ret'.val = a
              /\ up'[a] = b /\ up'[b] = c /\ up'[c] = None
              /\ comment(a, RecursionLimit)' = ChainComment(a, b, c))]_vars

\* A state right after of(A, of(B, C)) on distinct fresh leaves.
C6_Witness ==
    \E a \in Leaves, b \in Leaves, c \in Leaves :
        /\ Cardinality({a, b, c}) = 3
        /\ ret.op = "of" /\ ret.self = a /\ ret.arg = b
        /\ up[a] = b /\ down[a] = None /\ up[b] = c /\ down[b] = a
        /\ up[c] = None /\ down[c] = b

\* cell 'A' (node 1) in univ 'B' (node 2) in cell 'C' (node 3), well formed.
ChainABC ==
    /\ up[1] = 2 /\ up[2] = 3 /\ up[3] = None
    /\ down[1] = None /\ down[2] = 1 /\ down[3] = 2

\* The system definition numbers cell 'A' 1, universe 'B' 2 and cell 'C' 3.
KnowsABC(sim) ==
    /\ "A" \in DOMAIN sim.cells /\ sim.cells["A"] = 1
    /\ "B" \in DOMAIN sim.universes /\ sim.universes["B"] = 2
    /\ "C" \in DOMAIN sim.cells /\ sim.cells["C"] = 3

\* C7: on the well-formed chain cell A in universe B in cell C, mcnp() called
\* on A with cell A = 1, universe B = 2, cell C = 3 returns ' ( 1 < U=2 < 3)':
\* the pieces ' 1', ' U=2', ' 3' separated by ' <', the opening parenthesis
\* before A only and the closing one after C only.
C7_WireChain ==
    (ret.op = "mcnp" /\ ret.self = 1 /\ ChainABC /\ KnowsABC(ret.sim))
    => /\ ret.err = "none"
       /\ ret.out = " ( 1 < U=2 < 3)"
       /\ mcnp(1, ret.sim, RecursionLimit).out
             = <<" (", " 1", " <", " U=2", " <", " 3", ")">>

C7_Witness ==
    ret.op = "mcnp" /\ ret.self = 1 /\ ChainABC /\ KnowsABC(ret.sim)

\* The system definition knows the name of leaf m under the leaf's kind.
Known(sim, m) ==
    CASE LeafKind[m] = "surf" -> LeafName[m] \in DOMAIN sim.surfaces
      [] LeafKind[m] = "cell" -> LeafName[m] \in DOMAIN sim.cells
      [] LeafKind[m] = "univ" -> LeafName[m] \in DOMAIN sim.universes

\* The piece mcnp() emits for leaf m, numbered by its index.
LeafToken(m) ==
    IF LeafKind[m] = "univ" THEN " U=" \o IntStr(m) ELSE " " \o IntStr(m)

\* Everything a render call on n can come to visit.
Visited(n) == {n} \cup Beyond(n, CalledBy)
Missing(n, sim) == {m \in Visited(n) \cap Leaves : ~Known(sim, m)}

\* C8: mcnp() never returns a partial or placeholder string.  On any graph,
\* when a surface, cell or universe leaf the walk through up links and
\* union/vec members visits has a name the system definition lacks, the call
\* raises NameNotFound; when every visited name is known it returns a
\* complete string, holding the number of every visited leaf.  comment()
\* never raises NameNotFound.
C8_WireAllOrNothing ==
    /\ ret.op = "mcnp" =>
         LET n == ret.self
             r == mcnp(n, ret.sim, RecursionLimit)
         IN  /\ Missing(n, ret.sim) # {} =>
                  ret.err = "NameNotFound" /\ ret.out = ""
             /\ Missing(n, ret.sim) = {} =>
                  /\ ret.err = "none"
                  /\ \A m \in Visited(n) \cap Leaves : LeafToken(m) \in Range(r.out)
    /\ ret.op = "comment" => ret.err # "NameNotFound"

\* C9: a call A.of(B) leaves A.up = B and B.down = A in the state right after
\* it, changes no other up or down link, and changes no brothers or sisters.
C9_JoinFrame ==
    [][\A a \in Nodes, b \in Nodes :
          OfStep(a, b)
          => /\ ret'.err = "none"
             /\ up'[a] = b /\ down'[b] = a
             /\ \A n \in Nodes \ {a} : up'[n] = up[n]
             /\ \A n \in Nodes \ {b} : down'[n] = down[n]
             /\ brothers' = brothers /\ sisters' = sisters /\ kind' = kind]_vars

\* A state right after A.of(B) in which A was joined before (another node's
\* down link still points at A) and a union or vec exists.
C9_Witness ==
    /\ ret.op = "of"
    /\ up[ret.self] = ret.arg /\ down[ret.arg] = ret.self
    /\ \E n \in Nodes \ {ret.arg} : down[n] = ret.self
    /\ \E n \in Nodes : kind[n] \in {"union", "vec"}

\* C10: once set, an up link never changes, and once set, a down link never
\* changes.
C10_WriteOnce ==
    [][\A n \in Nodes :
          /\ up[n] # None => up'[n] = up[n]
          /\ down[n] # None => down'[n] = down[n]]_vars

====
